---- MODULE Spec2Model ----
(***************************************************************************)
(* Store helper bot: the conversation orchestration core.                  *)
(*                                                                         *)
(*   - the response parser            app/langchain/model.py               *)
(*   - the assistant/tools graph      app/langchain/model.py               *)
(*   - the three tools                app/langchain/tools.py               *)
(*   - chat persistence               app/services/chat.py                 *)
(*   - the turn processor             app/services/chat_processor.py       *)
(***************************************************************************)
EXTENDS Integers, Sequences, FiniteSets, TLC

\* ------------------------------------------------------------------------
\* Bounds of the model
\* ------------------------------------------------------------------------
\* turns processed in one behaviour
MaxTurns == 2
\* tool calls the model may request in one behaviour (also bounds call ids)
MaxToolCalls == 2
\* seconds the wall clock may advance
MaxClock == 1
\* exceptions the collaborators (model, graph, database, providers) may raise
\* in one behaviour
MaxFaults == 1
\* pieces a text handed to the parser is made of
MaxPieces == 3
\* messages posted to the message route in one behaviour
MaxPosts == 3

\* ------------------------------------------------------------------------
\* Generic helpers
\* ------------------------------------------------------------------------
Last(s) == s[Len(s)]

Range(s) == {s[i] : i \in 1..Len(s)}

\* dict.get(key, default) on a dict modelled as a function over its keys
DictGet(d, k, default) == IF k \in DOMAIN d THEN d[k] ELSE default

\* a Python/JSON value: its type and its text
StrVal(s) == [ty |-> "str", s |-> s]

NumVal(s) == [ty |-> "num", s |-> s]

\* Python truthiness of a str value ("" is falsy)
Truthy(s) == s # ""

\* ------------------------------------------------------------------------
\* Response parser: get_json_content
\* ------------------------------------------------------------------------
\* Lexical units of a model text.  A text is kept as a string in the state;
\* Lex gives its units, the granularity at which the two regular expressions
\* and json.loads tell texts apart.  In the texts ^^^ stands for the fence
\* of three backquotes.
\*   fence     ^^^json          endfence  ^^^
\*   lbrace    {                rbrace    }
\*   ws        whitespace       comma     ,
\*   pair      "key": value     junk      any other text
Tok(t) == [t |-> t, k |-> "", ty |-> "", s |-> ""]

Pair(k, ty, s) == [t |-> "pair", k |-> k, ty |-> ty, s |-> s]

ReplyHello == Pair("reply", "str", "Hello!")

ReplyBye == Pair("reply", "str", "Bye")

ReplyEmpty == Pair("reply", "str", "")

ReplyNum == Pair("reply", "num", "7")

IntentGreetingUpper == Pair("intent", "str", "GREETING")

IntentGreetingLower == Pair("intent", "str", "greeting")

IntentBogus == Pair("intent", "str", "INVALID_INTENT")

IntentNum == Pair("intent", "num", "5")

\* The texts the model may answer with, and their lexical units.
Lex(text) ==
  CASE text = "" -> << >>
    [] text = " " -> << Tok("ws") >>
    [] text = "No JSON here" -> << Tok("junk") >>
    [] text = "{\"reply\": \"Hello!\", \"intent\": \"GREETING\"}" ->
         << Tok("lbrace"), ReplyHello, Tok("comma"), Tok("ws"),
            IntentGreetingUpper, Tok("rbrace") >>
    [] text = "{\"reply\": \"Hello!\", \"intent\": \"greeting\"}" ->
         << Tok("lbrace"), ReplyHello, Tok("comma"), Tok("ws"),
            IntentGreetingLower, Tok("rbrace") >>
    [] text = "{\"reply\": \"Hello!\", \"intent\": \"INVALID_INTENT\"}" ->
         << Tok("lbrace"), ReplyHello, Tok("comma"), Tok("ws"),
            IntentBogus, Tok("rbrace") >>
    [] text = "{\"reply\": \"Hello!\", \"intent\": 5}" ->
         << Tok("lbrace"), ReplyHello, Tok("comma"), Tok("ws"),
            IntentNum, Tok("rbrace") >>
    [] text = "{\"reply\": \"Hello!\"}" ->
         << Tok("lbrace"), ReplyHello, Tok("rbrace") >>
    [] text = "{\"reply\": \"\", \"intent\": \"GREETING\"}" ->
         << Tok("lbrace"), ReplyEmpty, Tok("comma"), Tok("ws"),
            IntentGreetingUpper, Tok("rbrace") >>
    [] text = "{\"reply\": \"\", \"intent\": \"INVALID_INTENT\"}" ->
         << Tok("lbrace"), ReplyEmpty, Tok("comma"), Tok("ws"),
            IntentBogus, Tok("rbrace") >>
    [] text = "{\"reply\": 7, \"intent\": \"GREETING\"}" ->
         << Tok("lbrace"), ReplyNum, Tok("comma"), Tok("ws"),
            IntentGreetingUpper, Tok("rbrace") >>
    [] text = "{\"intent\": \"GREETING\"}" ->
         << Tok("lbrace"), IntentGreetingUpper, Tok("rbrace") >>
    [] text = "{}" -> << Tok("lbrace"), Tok("rbrace") >>
    [] text = "{\"reply\": \"Hello!\" \"intent\": \"GREETING\"}" ->
         << Tok("lbrace"), ReplyHello, Tok("ws"),
            IntentGreetingUpper, Tok("rbrace") >>
    [] text = "^^^json\n{\"reply\": \"Hello!\", \"intent\": \"GREETING\"}\n^^^" ->
         << Tok("fence"), Tok("ws"), Tok("lbrace"), ReplyHello, Tok("comma"),
            Tok("ws"), IntentGreetingUpper, Tok("rbrace"), Tok("ws"),
            Tok("endfence") >>
    [] text = "^^^json\n{\"reply\": \"Hello!\" oops}\n^^^\n^^^json\n{\"reply\": \"Bye\", \"intent\": \"GREETING\"}\n^^^" ->
         << Tok("fence"), Tok("ws"), Tok("lbrace"), ReplyHello, Tok("ws"),
            Tok("junk"), Tok("rbrace"), Tok("ws"), Tok("endfence"), Tok("ws"),
            Tok("fence"), Tok("ws"), Tok("lbrace"), ReplyBye, Tok("comma"),
            Tok("ws"), IntentGreetingUpper, Tok("rbrace"), Tok("ws"),
            Tok("endfence") >>
    [] text = "^^^json\n{\"reply\": \"Hello!\", \"intent\": \"GREETING\"}\n^^^\n^^^json\n{\"reply\": \"Bye\" oops}\n^^^" ->
         << Tok("fence"), Tok("ws"), Tok("lbrace"), ReplyHello, Tok("comma"),
            Tok("ws"), IntentGreetingUpper, Tok("rbrace"), Tok("ws"),
            Tok("endfence"), Tok("ws"),
            Tok("fence"), Tok("ws"), Tok("lbrace"), ReplyBye, Tok("ws"),
            Tok("junk"), Tok("rbrace"), Tok("ws"), Tok("endfence") >>
    [] text = "{\"reply\": \"Hello!\", \"intent\": \"GREETING\"} {\"reply\": \"Bye\", \"intent\": \"greeting\"}" ->
         << Tok("lbrace"), ReplyHello, Tok("comma"), Tok("ws"),
            IntentGreetingUpper, Tok("rbrace"), Tok("ws"),
            Tok("lbrace"), ReplyBye, Tok("comma"), Tok("ws"),
            IntentGreetingLower, Tok("rbrace") >>
    [] text = "^^^json\n{oops}\n^^^ {\"reply\": \"Bye\", \"intent\": \"GREETING\"}" ->
         << Tok("fence"), Tok("ws"), Tok("lbrace"), Tok("junk"), Tok("rbrace"),
            Tok("ws"), Tok("endfence"), Tok("ws"),
            Tok("lbrace"), ReplyBye, Tok("comma"), Tok("ws"),
            IntentGreetingUpper, Tok("rbrace") >>
    [] text = "{" -> << Tok("lbrace") >>
    [] text = "}" -> << Tok("rbrace") >>
    [] text = "^^^json" -> << Tok("fence") >>
    [] text = "^^^" -> << Tok("endfence") >>
    [] text = "{\"reply\": \"Bye\", \"intent\": \"greeting\"}" ->
         << Tok("lbrace"), ReplyBye, Tok("comma"), Tok("ws"),
            IntentGreetingLower, Tok("rbrace") >>
    [] text = "^^^json\n{oops}\n^^^" ->
         << Tok("fence"), Tok("ws"), Tok("lbrace"), Tok("junk"), Tok("rbrace"),
            Tok("ws"), Tok("endfence") >>
    [] OTHER -> << Tok("junk") >>

\* first position >= i that holds no whitespace unit (\s*)
RECURSIVE SkipWs(_, _)
SkipWs(toks, i) ==
  IF i <= Len(toks) /\ toks[i].t = "ws" THEN SkipWs(toks, i + 1) ELSE i

\* the closing fence of a block also matches the first three characters
\* of a following opening fence
IsClosingFence(toks, i) ==
  i <= Len(toks) /\ toks[i].t \in {"endfence", "fence"}

\* non-greedy (\{.*?\})\s*FENCE: the first } at or after e that is followed
\* by optional whitespace and a closing fence; 0 when there is none
RECURSIVE FencedEnd(_, _)
FencedEnd(toks, e) ==
  IF e > Len(toks) THEN 0
  ELSE IF toks[e].t = "rbrace" /\ IsClosingFence(toks, SkipWs(toks, e + 1))
       THEN e
       ELSE FencedEnd(toks, e + 1)

\* re.findall of FENCE json \s* (\{.*?\}) \s* FENCE with re.DOTALL, from unit i
RECURSIVE FindFenced(_, _)
FindFenced(toks, i) ==
  IF i > Len(toks) THEN << >>
  ELSE LET j == SkipWs(toks, i + 1)
           e == IF toks[i].t = "fence" /\ j <= Len(toks) /\ toks[j].t = "lbrace"
                THEN FencedEnd(toks, j + 1) ELSE 0
       IN  IF e = 0 THEN FindFenced(toks, i + 1)
           ELSE << SubSeq(toks, j, e) >>
                  \o FindFenced(toks, SkipWs(toks, e + 1) + 1)

\* non-greedy \{.*?\}: the first } after the {
RECURSIVE BraceEnd(_, _)
BraceEnd(toks, e) ==
  IF e > Len(toks) THEN 0
  ELSE IF toks[e].t = "rbrace" THEN e ELSE BraceEnd(toks, e + 1)

\* re.findall of \{.*?\} with re.DOTALL, from unit i
RECURSIVE FindBraces(_, _)
FindBraces(toks, i) ==
  IF i > Len(toks) THEN << >>
  ELSE LET e == IF toks[i].t = "lbrace" THEN BraceEnd(toks, i + 1) ELSE 0
       IN  IF e = 0 THEN FindBraces(toks, i + 1)
           ELSE << SubSeq(toks, i, e) >> \o FindBraces(toks, e + 1)

\* the units of a candidate without whitespace
RECURSIVE DropWs(_)
DropWs(toks) ==
  IF toks = << >> THEN << >>
  ELSE IF Head(toks).t = "ws" THEN DropWs(Tail(toks))
       ELSE << Head(toks) >> \o DropWs(Tail(toks))

\* members of a JSON object: pair (comma pair)*
RECURSIVE IsMembers(_)
IsMembers(body) ==
  /\ Len(body) >= 1
  /\ body[1].t = "pair"
  /\ \/ Len(body) = 1
     \/ /\ Len(body) >= 3
        /\ body[2].t = "comma"
        /\ IsMembers(SubSeq(body, 3, Len(body)))

\* json.loads succeeds on the candidate
JsonValid(bloque) ==
  LET c == DropWs(bloque)
  IN  /\ Len(c) >= 2
      /\ c[1].t = "lbrace"
      /\ c[Len(c)].t = "rbrace"
      /\ \/ Len(c) = 2
         \/ IsMembers(SubSeq(c, 2, Len(c) - 1))

\* the dict json.loads returns: for a repeated key the last value wins
JsonLoads(bloque) ==
  LET keys == {bloque[i].k : i \in {n \in 1..Len(bloque) : bloque[n].t = "pair"}}
      last(k) == CHOOSE i \in 1..Len(bloque) :
                   /\ bloque[i].t = "pair" /\ bloque[i].k = k
                   /\ \A n \in 1..Len(bloque) :
                        (bloque[n].t = "pair" /\ bloque[n].k = k) => n <= i
  IN  [k \in keys |-> [ty |-> bloque[last(k)].ty, s |-> bloque[last(k)].s]]

\* a scan that takes the first candidate that decodes
RECURSIVE LastValid_forward(_, _)
LastValid_forward(bloques, i) ==
  IF i = 0 THEN 0
  ELSE IF LastValid_forward(bloques, i - 1) # 0 THEN LastValid_forward(bloques, i - 1)
       ELSE IF JsonValid(bloques[i]) THEN i ELSE 0

\* for bloque in reversed(bloques): the last candidate that decodes; 0 if none
RECURSIVE LastValid(_, _)
LastValid(bloques, i) ==
  IF i = 0 THEN 0
  ELSE IF JsonValid(bloques[i]) THEN i ELSE LastValid(bloques, i - 1)

\* not content or not content.strip()
IsBlank(toks) == \A i \in 1..Len(toks) : toks[i].t = "ws"

EmptyResponse == [reply |-> StrVal("Empty response"), intent |-> StrVal("other")]

InvalidJson == [reply |-> StrVal("Invalid or missing JSON"), intent |-> StrVal("other")]

\* the candidates: fenced blocks, brace-delimited substrings only if none
Bloques(toks) ==
  IF FindFenced(toks, 1) # << >> THEN FindFenced(toks, 1) ELSE FindBraces(toks, 1)

\* A str is kept as the sequence of the pieces it was formatted from.
RECURSIVE LexAll(_)
LexAll(content) ==
  IF content = << >> THEN << >>
  ELSE Lex(Head(content)) \o LexAll(Tail(content))

get_json_content(content) ==
  LET toks == LexAll(content)
      bloques == Bloques(toks)
      i == LastValid(bloques, Len(bloques))
  IN  IF IsBlank(toks) THEN EmptyResponse
      ELSE IF i = 0 THEN InvalidJson
           ELSE JsonLoads(bloques[i])


\* ------------------------------------------------------------------------
\* Intent enumeration
\* ------------------------------------------------------------------------
IntentEnum ==
  {"GENERAL_QUESTION", "GREETING", "STORE_INFO", "STORE_HOURS", "STORE_CONTACT",
   "STORE_PROMOTIONS", "STORE_PAYMENT_METHODS", "STORE_SOCIAL_MEDIA",
   "STORE_LOCATION", "PRODUCT_LIST", "PRODUCT_CATEGORIES", "PRODUCT_DETAILS",
   "PRODUCT_LIST_BY_CATEGORY", "HUMAN_ASSISTANCE", "OTHER"}

\* str.upper() on the intent texts of the model
Upper(s) ==
  CASE s = "greeting" -> "GREETING"
    [] s = "other" -> "OTHER"
    [] s = "store_hours" -> "STORE_HOURS"
    [] OTHER -> s

\* ------------------------------------------------------------------------
\* Messages
\* ------------------------------------------------------------------------
\* ctype is "str" unless the content is not a Python str
Msg(role, content) ==
  [role |-> role, content |-> content, ctype |-> "str",
   tool_calls |-> << >>, tool_call_id |-> 0]

ToolMessage(content, tool_call_id) ==
  [role |-> "tool", content |-> content, ctype |-> "str",
   tool_calls |-> << >>, tool_call_id |-> tool_call_id]

AIMessage(content, ctype, tool_calls) ==
  [role |-> "assistant", content |-> content, ctype |-> ctype,
   tool_calls |-> tool_calls, tool_call_id |-> 0]

system_message == Msg("system", << "You are an assistant that always responds in JSON format" >>)

\* ------------------------------------------------------------------------
\* Chat persistence: ChatService
\* ------------------------------------------------------------------------
NoChat ==
  [client_name |-> "", client_email |-> "", transferred_to_operator |-> FALSE,
   transfer_inquiry_id |-> "", transfer_query |-> ""]

\* Python binds a call made with keyword arguments only when every keyword
\* is a parameter of the callee and every required parameter is given;
\* otherwise the call raises TypeError before the body runs.
Binds(kwargs, params, required) == kwargs \subseteq params /\ required \subseteq kwargs

\* def transfer_to_operator(self, db, *, chat_id, transfer_data)
TransferToOperatorParams == {"db", "chat_id", "transfer_data"}

\* def save_client_info_for_transfer(self, db, *, chat_id, client_name,
\*     client_email, query=None, inquiry_id=None)
SaveClientInfoParams ==
  {"db", "chat_id", "client_name", "client_email", "query", "inquiry_id"}

\* the keywords human_assistance passes to chat_service.transfer_to_operator
HumanAssistanceKwargs ==
  {"db", "chat_id", "client_name", "client_email", "query", "inquiry_id"}

\* a transfer_to_operator that flips the flag of the chat
transfer_to_operator_toggle(rows, msgs, kw, chat_id, operator_email) ==
  IF ~Binds(kw, TransferToOperatorParams, TransferToOperatorParams)
  THEN [raised |-> TRUE, error |-> "TypeError", chats |-> rows, messages |-> msgs]
  ELSE IF chat_id \notin DOMAIN rows
       THEN [raised |-> FALSE, error |-> "", chats |-> rows, messages |-> msgs]
       ELSE [raised |-> FALSE, error |-> "",
             chats |-> [rows EXCEPT ![chat_id].transferred_to_operator = ~@],
             messages |-> Append(msgs,
                [chat_id |-> chat_id,
                 content |-> << "Chat transferred to operator: ", operator_email >>,
                 sender |-> "BOT", intent |-> "GENERAL_QUESTION"])]

\* ChatService.transfer_to_operator called with the keywords kw.  The result
\* tells whether the call raised and gives the rows afterwards.
transfer_to_operator(rows, msgs, kw, chat_id, operator_email) ==
  IF ~Binds(kw, TransferToOperatorParams, TransferToOperatorParams)
  THEN [raised |-> TRUE, error |-> "TypeError", chats |-> rows, messages |-> msgs]
  ELSE IF chat_id \notin DOMAIN rows
       THEN [raised |-> FALSE, error |-> "", chats |-> rows, messages |-> msgs]
       ELSE [raised |-> FALSE, error |-> "",
             chats |-> [rows EXCEPT ![chat_id].transferred_to_operator = TRUE],
             messages |-> Append(msgs,
                [chat_id |-> chat_id,
                 content |-> << "Chat transferred to operator: ", operator_email >>,
                 sender |-> "BOT", intent |-> "GENERAL_QUESTION"])]

\* ChatService.save_client_info_for_transfer
save_client_info_for_transfer(rows, kw, chat_id, client_name, client_email, query, inquiry_id) ==
  IF ~Binds(kw, SaveClientInfoParams, {"db", "chat_id", "client_name", "client_email"})
  THEN [raised |-> TRUE, error |-> "TypeError", chats |-> rows]
  ELSE IF chat_id \notin DOMAIN rows
       THEN [raised |-> FALSE, error |-> "", chats |-> rows]
       ELSE [raised |-> FALSE, error |-> "",
             chats |-> [rows EXCEPT ![chat_id] =
                [client_name |-> client_name, client_email |-> client_email,
                 transferred_to_operator |-> TRUE,
                 transfer_inquiry_id |-> inquiry_id, transfer_query |-> query]]]

\* ------------------------------------------------------------------------
\* Tools: ToolManager
\* ------------------------------------------------------------------------
\* the arguments of a tool call; an argument the model left out is ""
\* (product_id: 0)
Args(name, email, query, chat_id, intent, category, product_id) ==
  [name |-> name, email |-> email, query |-> query, chat_id |-> chat_id,
   intent |-> intent, category |-> category, product_id |-> product_id]

\* Command(update={...}): the messages and the top-level state fields
Command(messages, fields) == [messages |-> messages, fields |-> fields]

NoFields == [k \in {} |-> ""]

\* f"INQ-{int(time.time())}"
InquiryId(clock) == << "INQ-", ToString(clock) >>

\* a human_assistance that goes on to the confirmation when the chat service
\* raised
human_assistance_unguarded(a, tool_call_id, clock, rows, msgs) ==
  IF ~Truthy(a.chat_id)
  THEN [update |-> Command(<< ToolMessage(<< "Sorry, now we can't register your inquiry. Please try again later." >>, tool_call_id) >>, NoFields),
        chats |-> rows, messages |-> msgs, calls |-> << >>]
  ELSE IF ~Truthy(a.name) \/ ~Truthy(a.email) \/ ~Truthy(a.query)
  THEN [update |-> Command(<< ToolMessage(<< "Please provide a name, email, and query." >>, tool_call_id) >>, NoFields),
        chats |-> rows, messages |-> msgs, calls |-> << >>]
  ELSE LET inquiry_id == InquiryId(clock)
           r == transfer_to_operator(rows, msgs, HumanAssistanceKwargs, a.chat_id, "")
           call == [chat_id |-> a.chat_id, inquiry_id |-> inquiry_id, raised |-> r.raised]
       IN  [update |-> Command(
                    << ToolMessage(<< "Thank you, ", a.name, "! Your inquiry has been registered (ID: " >>
                                   \o inquiry_id
                                   \o << "). A member of our team will contact you at ", a.email,
                                         " within 24-48 hours. Please include your inquiry ID in any follow-up communications." >>,
                                   tool_call_id) >>,
                    [k \in {"name", "email", "last_inquiry_id"} |->
                       CASE k = "name" -> << a.name >>
                         [] k = "email" -> << a.email >>
                         [] OTHER -> inquiry_id]),
                 chats |-> r.chats, messages |-> r.messages, calls |-> << call >>]

\* a human_assistance that only checks that the name is given
human_assistance_nameonly(a, tool_call_id, clock, rows, msgs) ==
  IF ~Truthy(a.chat_id)
  THEN [update |-> Command(<< ToolMessage(<< "Sorry, now we can't register your inquiry. Please try again later." >>, tool_call_id) >>, NoFields),
        chats |-> rows, messages |-> msgs, calls |-> << >>]
  ELSE IF ~Truthy(a.name)
  THEN [update |-> Command(<< ToolMessage(<< "Please provide a name, email, and query." >>, tool_call_id) >>, NoFields),
        chats |-> rows, messages |-> msgs, calls |-> << >>]
  ELSE LET inquiry_id == InquiryId(clock)
           r == transfer_to_operator(rows, msgs, HumanAssistanceKwargs, a.chat_id, "")
           call == [chat_id |-> a.chat_id, inquiry_id |-> inquiry_id, raised |-> r.raised]
       IN  IF r.raised
           THEN [update |-> Command(<< ToolMessage(<< "An error occurred while registering your inquiry, please try again later." >>, tool_call_id) >>, NoFields),
                 chats |-> r.chats, messages |-> r.messages, calls |-> << call >>]
           ELSE [update |-> Command(
                    << ToolMessage(<< "Thank you, ", a.name, "! Your inquiry has been registered (ID: " >>
                                   \o inquiry_id
                                   \o << "). A member of our team will contact you at ", a.email,
                                         " within 24-48 hours. Please include your inquiry ID in any follow-up communications." >>,
                                   tool_call_id) >>,
                    [k \in {"name", "email", "last_inquiry_id"} |->
                       CASE k = "name" -> << a.name >>
                         [] k = "email" -> << a.email >>
                         [] OTHER -> inquiry_id]),
                 chats |-> r.chats, messages |-> r.messages, calls |-> << call >>]

\* a human_assistance that calls save_client_info_for_transfer, whose
\* signature takes its keywords, and does not look at what the call returns
human_assistance_saveinfo(a, tool_call_id, clock, rows, msgs) ==
  IF ~Truthy(a.chat_id)
  THEN [update |-> Command(<< ToolMessage(<< "Sorry, now we can't register your inquiry. Please try again later." >>, tool_call_id) >>, NoFields),
        chats |-> rows, messages |-> msgs, calls |-> << >>]
  ELSE IF ~Truthy(a.name) \/ ~Truthy(a.email) \/ ~Truthy(a.query)
  THEN [update |-> Command(<< ToolMessage(<< "Please provide a name, email, and query." >>, tool_call_id) >>, NoFields),
        chats |-> rows, messages |-> msgs, calls |-> << >>]
  ELSE LET inquiry_id == InquiryId(clock)
           r == save_client_info_for_transfer(rows, HumanAssistanceKwargs, a.chat_id,
                                              a.name, a.email, a.query, inquiry_id)
           call == [chat_id |-> a.chat_id, inquiry_id |-> inquiry_id, raised |-> r.raised]
       IN  IF r.raised
           THEN [update |-> Command(<< ToolMessage(<< "An error occurred while registering your inquiry, please try again later." >>, tool_call_id) >>, NoFields),
                 chats |-> r.chats, messages |-> msgs, calls |-> << call >>]
           ELSE [update |-> Command(
                    << ToolMessage(<< "Thank you, ", a.name, "! Your inquiry has been registered (ID: " >>
                                   \o inquiry_id
                                   \o << "). A member of our team will contact you at ", a.email,
                                         " within 24-48 hours. Please include your inquiry ID in any follow-up communications." >>,
                                   tool_call_id) >>,
                    [k \in {"name", "email", "last_inquiry_id"} |->
                       CASE k = "name" -> << a.name >>
                         [] k = "email" -> << a.email >>
                         [] OTHER -> inquiry_id]),
                 chats |-> r.chats, messages |-> msgs, calls |-> << call >>]

\* human_assistance, given the chat rows and the clock.  Returns the Command,
\* the rows afterwards and the calls made to chat_service.
human_assistance(a, tool_call_id, clock, rows, msgs) ==
  IF ~Truthy(a.chat_id)
  THEN [update |-> Command(<< ToolMessage(<< "Sorry, now we can't register your inquiry. Please try again later." >>, tool_call_id) >>, NoFields),
        chats |-> rows, messages |-> msgs, calls |-> << >>]
  ELSE IF ~Truthy(a.name) \/ ~Truthy(a.email) \/ ~Truthy(a.query)
  THEN [update |-> Command(<< ToolMessage(<< "Please provide a name, email, and query." >>, tool_call_id) >>, NoFields),
        chats |-> rows, messages |-> msgs, calls |-> << >>]
  ELSE LET inquiry_id == InquiryId(clock)
           r == transfer_to_operator(rows, msgs, HumanAssistanceKwargs, a.chat_id, "")
           call == [chat_id |-> a.chat_id, inquiry_id |-> inquiry_id, raised |-> r.raised]
       IN  IF r.raised
           THEN [update |-> Command(<< ToolMessage(<< "An error occurred while registering your inquiry, please try again later." >>, tool_call_id) >>, NoFields),
                 chats |-> r.chats, messages |-> r.messages, calls |-> << call >>]
           ELSE [update |-> Command(
                    << ToolMessage(<< "Thank you, ", a.name, "! Your inquiry has been registered (ID: " >>
                                   \o inquiry_id
                                   \o << "). A member of our team will contact you at ", a.email,
                                         " within 24-48 hours. Please include your inquiry ID in any follow-up communications." >>,
                                   tool_call_id) >>,
                    [k \in {"name", "email", "last_inquiry_id"} |->
                       CASE k = "name" -> << a.name >>
                         [] k = "email" -> << a.email >>
                         [] OTHER -> inquiry_id]),
                 chats |-> r.chats, messages |-> r.messages, calls |-> << call >>]

\* the intents get_store_data maps to a store-info function
StoreMapping ==
  {"store_info", "store_hours", "store_contact", "store_promotions",
   "store_payment_methods", "store_social_media", "store_location"}

\* the intents get_products_data maps to a catalog function
ProductMapping ==
  {"product_list", "product_categories", "product_details", "product_list_by_category"}

\* a provider result after model_dump: the items of a flattened dict
ProviderData(intent) ==
  IF intent = "store_hours"
  THEN << [k |-> "Regular hours monday", v |-> "9-18"] >>
  ELSE << [k |-> "Name", v |-> "Item" ] >>

\* "\n".join(f"- {key}: {v}" for key, v in flat_result.items())
RECURSIVE FormatItems(_)
FormatItems(items) ==
  IF items = << >> THEN << >>
  ELSE << "- ", Head(items).k, ": ", Head(items).v >>
       \o (IF Len(items) > 1 THEN << "\n" >> ELSE << >>)
       \o FormatItems(Tail(items))

\* a get_store_data whose unsupported-intent path returns no tool message
get_store_data_silent(a, tool_call_id, outcome) ==
  IF a.intent \notin StoreMapping
  THEN [update |-> Command(<< >>, NoFields), calls |-> << >>]
  ELSE IF outcome = "raise"
       THEN [update |-> Command(<< ToolMessage(<< "Error fetching store data: ", "provider error" >>, tool_call_id) >>, NoFields),
             calls |-> << [tool |-> "get_store_data", intent |-> a.intent] >>]
       ELSE [update |-> Command(<< ToolMessage(FormatItems(ProviderData(a.intent)), tool_call_id) >>, NoFields),
             calls |-> << [tool |-> "get_store_data", intent |-> a.intent] >>]

\* a get_store_data whose except clause reports the bare text of the exception
get_store_data_bare(a, tool_call_id, outcome) ==
  IF a.intent \notin StoreMapping
  THEN [update |-> Command(<< ToolMessage(<< "Intent '", a.intent, "' is not supported." >>, tool_call_id) >>, NoFields),
        calls |-> << >>]
  ELSE IF outcome = "raise"
       THEN [update |-> Command(<< ToolMessage(<< "provider error" >>, tool_call_id) >>, NoFields),
             calls |-> << [tool |-> "get_store_data", intent |-> a.intent] >>]
       ELSE [update |-> Command(<< ToolMessage(FormatItems(ProviderData(a.intent)), tool_call_id) >>, NoFields),
             calls |-> << [tool |-> "get_store_data", intent |-> a.intent] >>]

\* get_store_data; outcome tells whether the store-info function raises
get_store_data(a, tool_call_id, outcome) ==
  IF a.intent \notin StoreMapping
  THEN [update |-> Command(<< ToolMessage(<< "Intent '", a.intent, "' is not supported." >>, tool_call_id) >>, NoFields),
        calls |-> << >>]
  ELSE IF outcome = "raise"
       THEN [update |-> Command(<< ToolMessage(<< "Error fetching store data: ", "provider error" >>, tool_call_id) >>, NoFields),
             calls |-> << [tool |-> "get_store_data", intent |-> a.intent] >>]
       ELSE [update |-> Command(<< ToolMessage(FormatItems(ProviderData(a.intent)), tool_call_id) >>, NoFields),
             calls |-> << [tool |-> "get_store_data", intent |-> a.intent] >>]

\* a get_products_data that does not validate the category
get_products_data_nocategory(a, tool_call_id, outcome) ==
  IF a.intent \notin ProductMapping
  THEN [update |-> Command(<< ToolMessage(<< "Intent '", a.intent, "' is not supported." >>, tool_call_id) >>, NoFields),
        calls |-> << >>]
  ELSE IF a.intent = "product_details" /\ a.product_id = 0
  THEN [update |-> Command(<< ToolMessage(<< "Please provide a product ID." >>, tool_call_id) >>, NoFields),
        calls |-> << >>]
  ELSE IF outcome = "raise"
       THEN [update |-> Command(<< ToolMessage(<< "Error fetching product data: ", "provider error" >>, tool_call_id) >>, NoFields),
             calls |-> << [tool |-> "get_products_data", intent |-> a.intent] >>]
       ELSE [update |-> Command(<< ToolMessage(FormatItems(ProviderData(a.intent)), tool_call_id) >>, NoFields),
             calls |-> << [tool |-> "get_products_data", intent |-> a.intent] >>]

\* get_products_data; outcome tells whether the catalog function raises
get_products_data(a, tool_call_id, outcome) ==
  IF a.intent \notin ProductMapping
  THEN [update |-> Command(<< ToolMessage(<< "Intent '", a.intent, "' is not supported." >>, tool_call_id) >>, NoFields),
        calls |-> << >>]
  ELSE IF a.intent = "product_list_by_category" /\ ~Truthy(a.category)
  THEN [update |-> Command(<< ToolMessage(<< "Please provide a category." >>, tool_call_id) >>, NoFields),
        calls |-> << >>]
  ELSE IF a.intent = "product_details" /\ a.product_id = 0
  THEN [update |-> Command(<< ToolMessage(<< "Please provide a product ID." >>, tool_call_id) >>, NoFields),
        calls |-> << >>]
  ELSE IF outcome = "raise"
       THEN [update |-> Command(<< ToolMessage(<< "Error fetching product data: ", "provider error" >>, tool_call_id) >>, NoFields),
             calls |-> << [tool |-> "get_products_data", intent |-> a.intent] >>]
       ELSE [update |-> Command(<< ToolMessage(FormatItems(ProviderData(a.intent)), tool_call_id) >>, NoFields),
             calls |-> << [tool |-> "get_products_data", intent |-> a.intent] >>]

\* the call reaches a store-info or catalog function
ReachesProvider(c) ==
  \/ c.name = "get_store_data" /\ c.args.intent \in StoreMapping
  \/ /\ c.name = "get_products_data"
     /\ c.args.intent \in ProductMapping
     /\ ~(c.args.intent = "product_list_by_category" /\ ~Truthy(c.args.category))
     /\ ~(c.args.intent = "product_details" /\ c.args.product_id = 0)

\* ------------------------------------------------------------------------
\* Inputs
\* ------------------------------------------------------------------------
\* the conversation the turns belong to, and the chats that exist
ChatId == "c1"

ExistingChats == {"c1", "c2"}

\* what the model may pass to the tools
HumanAssistanceInputs ==
  {Args(n, e, q, c, "", "", 0) :
     n \in {"", "Ann"}, e \in {"", "ann@example.com"},
     q \in {"", "refund"}, c \in {"", "c1", "c9"}}

StoreDataInputs ==
  {Args("", "", "", "", i, "", 0) : i \in {"store_hours", "not_a_real_intent"}}

ProductsDataInputs ==
  {Args("", "", "", "", "product_list", "", 0),
   Args("", "", "", "", "product_details", "", 0),
   Args("", "", "", "", "product_details", "", 1),
   Args("", "", "", "", "product_list_by_category", "", 0),
   Args("", "", "", "", "product_list_by_category", "shoes", 0),
   Args("", "", "", "", "not_a_real_intent", "", 0)}

ToolInputs ==
  {[name |-> "human_assistance", args |-> a] : a \in HumanAssistanceInputs}
  \cup {[name |-> "get_store_data", args |-> a] : a \in StoreDataInputs}
  \cup {[name |-> "get_products_data", args |-> a] : a \in ProductsDataInputs}

\* the tool calls the model requests inside a turn: for each tool one call
\* per return path
GraphToolInputs ==
  {[name |-> "human_assistance", args |-> Args("Ann", "ann@example.com", "refund", "", "", "", 0)],
   [name |-> "human_assistance", args |-> Args("", "ann@example.com", "refund", "c1", "", "", 0)],
   [name |-> "human_assistance", args |-> Args("Ann", "ann@example.com", "refund", "c1", "", "", 0)],
   [name |-> "get_store_data", args |-> Args("", "", "", "", "not_a_real_intent", "", 0)],
   [name |-> "get_store_data", args |-> Args("", "", "", "", "store_hours", "", 0)],
   [name |-> "get_products_data", args |-> Args("", "", "", "", "product_details", "", 0)],
   [name |-> "get_products_data", args |-> Args("", "", "", "", "product_list", "", 0)]}

\* the final texts the model may answer with
ModelTexts ==
  {"{\"reply\": \"Hello!\", \"intent\": \"greeting\"}",
   "{\"reply\": \"\", \"intent\": \"INVALID_INTENT\"}",
   "No JSON here"}

\* what the users type
UserInputs == {"Hi"}

\* ------------------------------------------------------------------------
\* State
\* ------------------------------------------------------------------------
VARIABLES
  now,             \* int(time.time())
  chats,           \* chat id -> row of the chats table
  db_messages,     \* rows of the messages table, in creation order
  transfer_calls,  \* calls made to chat_service.transfer_to_operator
  provider_calls,  \* calls made to the store-info and catalog functions
  state,           \* the conversation state object the caller passes in
  memory,          \* the checkpointer: thread id -> graph state
  pc,              \* position of process_message
  node,            \* position of the graph run
  user_message,    \* index in db_messages of the CLIENT row of the turn
  response,        \* what the engine gave back to process_message
  result,          \* what process_message gave back to its caller
  turns,           \* turns started
  ncalls,          \* tool calls requested so far
  commands,        \* the tool calls of the last tools step and their Commands
  turn_start,      \* sizes of db_messages, state.messages and the checkpoint
                   \* when the turn began
  faults,          \* exceptions raised by the collaborators so far
  parsed,          \* a text handed to the response parser and what it returned
  parked           \* the call of process_message that is suspended at an await
                   \* while another one runs: its state object and its locals

vars ==
  << now, chats, db_messages, transfer_calls, provider_calls, state, memory,
     pc, node, user_message, response, result, turns, ncalls, commands,
     turn_start, faults, parsed, parked >>

NoDict == [k \in {} |-> StrVal("")]

NoResponse == [kind |-> "none", d |-> NoDict, error |-> ""]

NoResult ==
  [kind |-> "none", success |-> FALSE, content |-> << >>, intent |-> "", error |-> ""]

\* a text the parser has not been applied to yet
Unparsed(content) == [content |-> content, called |-> FALSE, out |-> NoDict]

\* the conversation of a second caller
OtherChatId == "c2"

\* a caller that has not called process_message yet
Idle(chat_id) ==
  [state |-> [chat_id |-> chat_id, messages |-> << >>],
   pc |-> "idle", node |-> "none", user_message |-> 0,
   response |-> NoResponse, result |-> NoResult,
   turn_start |-> [db |-> 0, state |-> 0, memory |-> 0]]

\* everything but the text handed to the parser
InitCore ==
  /\ parked = Idle(OtherChatId)
  /\ now = 0
  /\ chats = [c \in ExistingChats |-> NoChat]
  /\ db_messages = << >>
  /\ transfer_calls = << >>
  /\ provider_calls = << >>
  /\ state = [chat_id |-> ChatId, messages |-> << >>]
  /\ memory = [t \in ExistingChats |-> [messages |-> << >>, fields |-> NoFields]]
  /\ pc = "idle"
  /\ node = "none"
  /\ user_message = 0
  /\ response = NoResponse
  /\ result = NoResult
  /\ turns = 0
  /\ ncalls = 0
  /\ commands = << >>
  /\ turn_start = [db |-> 0, state |-> 0, memory |-> 0]
  /\ faults = 0

Init == InitCore /\ parsed = Unparsed(<< >>)

\* ------------------------------------------------------------------------
\* The graph: chatbot, tools_condition, tool_node
\* ------------------------------------------------------------------------
\* add_messages: the dicts of the input carry no id, so each is appended
add_messages(left, right) == left \o right

\* a routing that inspects the first message of the state, not the last
tools_condition_first(messages) ==
  IF Head(messages).tool_calls # << >> THEN "tools" ELSE "END"

\* a routing that stops the loop after one tools step
tools_condition_capped(messages) ==
  IF /\ Last(messages).tool_calls # << >>
     /\ \A i \in 1..Len(messages) : messages[i].role # "tool"
  THEN "tools" ELSE "END"

\* tools_condition: "tools" if the last message has tool calls, else END
tools_condition(messages) ==
  IF Last(messages).tool_calls # << >> THEN "tools" ELSE "END"

\* a Command update merged into the graph state
MergeFields(old, new) ==
  [k \in DOMAIN old \cup DOMAIN new |-> IF k \in DOMAIN new THEN new[k] ELSE old[k]]

\* one tool call executed by the tool node
RunTool(c, outcome, clock, rows, msgs) ==
  IF c.name = "human_assistance"
  THEN LET r == human_assistance(c.args, c.id, clock, rows, msgs)
       IN  [update |-> r.update, chats |-> r.chats, messages |-> r.messages,
            transfers |-> r.calls, providers |-> << >>]
  ELSE LET r == IF c.name = "get_store_data"
                THEN get_store_data(c.args, c.id, outcome)
                ELSE get_products_data(c.args, c.id, outcome)
       IN  [update |-> r.update, chats |-> rows, messages |-> msgs,
            transfers |-> << >>, providers |-> r.calls]

\* tool_node: every tool call of the last assistant message, in order
RECURSIVE tool_node(_, _, _, _)
tool_node(calls, outcomes, clock, acc) ==
  IF calls = << >> THEN acc
  ELSE CHOOSE out \in
         {tool_node(Tail(calls), Tail(outcomes), clock,
             [new |-> acc.new \o r.update.messages,
              fields |-> MergeFields(acc.fields, r.update.fields),
              chats |-> r.chats,
              messages |-> r.messages,
              transfers |-> acc.transfers \o r.transfers,
              providers |-> acc.providers \o r.providers,
              commands |-> Append(acc.commands,
                 [call |-> Head(calls), outcome |-> Head(outcomes), update |-> r.update,
                  transfers |-> r.transfers, providers |-> r.providers])]) :
            r \in {RunTool(Head(calls), Head(outcomes), clock, acc.chats, acc.messages)}} :
         TRUE

Running == pc = "graph"

\* chatbot: the model answers with a final text
Chatbot_Final ==
  /\ Running /\ node = "chatbot"
  /\ \E text \in ModelTexts :
       LET out == AIMessage(<< text >>, "str", << >>)
           msgs == Append(memory[state.chat_id].messages, out)
       IN  /\ memory' = [memory EXCEPT ![state.chat_id].messages = msgs]
           /\ node' = tools_condition(msgs)
  /\ UNCHANGED << parked, parsed, faults, now, chats, db_messages, transfer_calls, provider_calls, state,
                  pc, user_message, response, result, turns, ncalls, commands,
                  turn_start >>

\* chatbot: the model answers with a content that is not a str
Chatbot_ListContent ==
  /\ Running /\ node = "chatbot"
  /\ LET out == AIMessage(<< "Hello!" >>, "list", << >>)
         msgs == Append(memory[state.chat_id].messages, out)
     IN  /\ memory' = [memory EXCEPT ![state.chat_id].messages = msgs]
         /\ node' = tools_condition(msgs)
  /\ UNCHANGED << parked, parsed, faults, now, chats, db_messages, transfer_calls, provider_calls, state,
                  pc, user_message, response, result, turns, ncalls, commands,
                  turn_start >>

\* chatbot: the model requests one or two tool calls
Chatbot_ToolCalls ==
  /\ Running /\ node = "chatbot"
  /\ \E n \in 1..2 :
       /\ ncalls + n <= MaxToolCalls
       /\ \E cs \in [1..n -> GraphToolInputs] :
            LET calls == [i \in 1..n |->
                            [id |-> ncalls + i, name |-> cs[i].name, args |-> cs[i].args]]
                out == AIMessage(<< "" >>, "str", calls)
                msgs == Append(memory[state.chat_id].messages, out)
            IN  /\ memory' = [memory EXCEPT ![state.chat_id].messages = msgs]
                /\ node' = tools_condition(msgs)
                /\ ncalls' = ncalls + n
  /\ UNCHANGED << parked, parsed, faults, now, chats, db_messages, transfer_calls, provider_calls, state,
                  pc, user_message, response, result, turns, commands, turn_start >>

\* chatbot: llm_with_tools.ainvoke raises
Chatbot_Raises ==
  /\ faults < MaxFaults
  /\ faults' = faults + 1
  /\ Running /\ node = "chatbot"
  /\ node' = "failed"
  /\ UNCHANGED << parked, parsed, now, chats, db_messages, transfer_calls, provider_calls, state,
                  memory, pc, user_message, response, result, turns, ncalls,
                  commands, turn_start >>

\* the call reads the clock
ReadsClock(c) ==
  /\ c.name = "human_assistance"
  /\ Truthy(c.args.chat_id) /\ Truthy(c.args.name)
  /\ Truthy(c.args.email) /\ Truthy(c.args.query)

\* tools: the tool node runs the pending tool calls, then back to chatbot.
\* The wall clock has advanced by any amount since it was last read.
Tools ==
  /\ Running /\ node = "tools"
  /\ LET calls == Last(memory[state.chat_id].messages).tool_calls
     IN  \E outcomes \in [1..Len(calls) -> {"ok", "raise"}], clock \in now..MaxClock :
           /\ \A i \in 1..Len(calls) :
                ~ReachesProvider(calls[i]) => outcomes[i] = "ok"
           /\ (\A i \in 1..Len(calls) : ~ReadsClock(calls[i])) => clock = now
           /\ now' = clock
           /\ faults + Cardinality({i \in 1..Len(calls) : outcomes[i] = "raise"}) <= MaxFaults
           /\ faults' = faults + Cardinality({i \in 1..Len(calls) : outcomes[i] = "raise"})
           /\ \E r \in {tool_node(calls, outcomes, clock,
                         [new |-> << >>, fields |-> memory[state.chat_id].fields,
                          chats |-> chats, messages |-> db_messages,
                          transfers |-> << >>, providers |-> << >>,
                          commands |-> << >>])} :
                  /\ memory' = [memory EXCEPT ![state.chat_id] =
                                  [messages |-> @.messages \o r.new,
                                   fields |-> r.fields]]
                  /\ chats' = r.chats
                  /\ db_messages' = r.messages
                  /\ transfer_calls' = transfer_calls \o r.transfers
                  /\ provider_calls' = provider_calls \o r.providers
                  /\ commands' = r.commands
  /\ node' = "chatbot"
  /\ UNCHANGED << parked, parsed, state, pc, user_message, response, result, turns, ncalls,
                  turn_start >>

\* graph.ainvoke raises while the graph runs (checkpointer, graph error)
Graph_Raises ==
  /\ faults < MaxFaults
  /\ faults' = faults + 1
  /\ Running /\ node \in {"chatbot", "tools"}
  /\ node' = "failed"
  /\ UNCHANGED << parked, parsed, now, chats, db_messages, transfer_calls, provider_calls, state,
                  memory, pc, user_message, response, result, turns, ncalls,
                  commands, turn_start >>

\* ------------------------------------------------------------------------
\* The engine: run_graph_once_with_interrupt
\* ------------------------------------------------------------------------
\* a dict with the keys content and intent
DictResponse(content, intent) ==
  [kind |-> "dict",
   d |-> [k \in {"content", "intent"} |-> IF k = "content" THEN content ELSE intent],
   error |-> ""]

\* the value a function gives back when it ends without a return statement
NoneResponse == [kind |-> "None", d |-> NoDict, error |-> ""]

\* the call raised
RaisedResponse(e) == [kind |-> "raised", d |-> NoDict, error |-> e]

DefaultResponse == DictResponse(StrVal("No reply provided."), StrVal("other"))

\* the inner try of the engine: the parser applied to the last message.
\* A content that is not a str makes content.strip() raise, which the
\* inner except swallows, and the default answer follows.
OnGraphResult(messages) ==
  LET last_message == Last(messages)
  IN  IF last_message.ctype # "str" THEN DefaultResponse
      ELSE LET content == get_json_content(last_message.content)
           IN  DictResponse(DictGet(content, "reply", StrVal("No reply provided.")),
                            DictGet(content, "intent", StrVal("other")))

\* an engine whose outer except lets the exception go on
OnGraphException_reraise(e) == RaisedResponse(e)

\* the outer except of the engine: print the exception, return nothing
OnGraphException(e) == NoneResponse

\* ------------------------------------------------------------------------
\* The turn processor: ChatProcessor
\* ------------------------------------------------------------------------
FallbackContent ==
  << "I couldn't generate a response. Please try again or rephrase your question." >>

\* _parse_response: content = response.get("content", ""), replaced by the
\* fallback text unless it is a non-empty str
parse_content(r) ==
  LET content == DictGet(r.d, "content", StrVal(""))
  IN  IF content.ty = "str" /\ Truthy(content.s) THEN << content.s >> ELSE FallbackContent

\* a parse that looks the intent up without bringing it to upper case
parse_intent_noupper(r) ==
  LET intent_value == DictGet(r.d, "intent", StrVal("OTHER"))
  IN  IF intent_value.ty = "str" /\ intent_value.s \in IntentEnum
      THEN intent_value.s ELSE "OTHER"

\* a parse that takes the upper-case intent without looking it up in the
\* enumeration
parse_intent_unchecked(r) ==
  LET intent_value == DictGet(r.d, "intent", StrVal("OTHER"))
  IN  IF intent_value.ty = "str" THEN Upper(intent_value.s) ELSE "OTHER"

\* _parse_response: IntentEnum(response.get("intent", IntentEnum.OTHER).upper()),
\* OTHER on ValueError or AttributeError
parse_intent(r) ==
  LET intent_value == DictGet(r.d, "intent", StrVal("OTHER"))
  IN  IF intent_value.ty = "str" /\ Upper(intent_value.s) \in IntentEnum
      THEN Upper(intent_value.s) ELSE "OTHER"

\* _create_error_response
create_error_response(e) ==
  [kind |-> "returned", success |-> FALSE,
   content |-> << "Sorry, I encountered an error processing your request." >>,
   intent |-> "OTHER", error |-> e]

\* an exception that leaves process_message
Propagated(e) ==
  [kind |-> "raised", success |-> FALSE, content |-> << >>, intent |-> "", error |-> e]

SuccessResult(content, intent) ==
  [kind |-> "returned", success |-> TRUE, content |-> content, intent |-> intent,
   error |-> ""]

\* an except clause that drops the message of the exception
OnTurnException_nomessage(e) == create_error_response("")

\* the except clause of process_message
OnTurnException(e) == create_error_response(e)

Row(chat_id, content, sender, intent) ==
  [chat_id |-> chat_id, content |-> content, sender |-> sender, intent |-> intent]

\* a process_message that waits while another call is in flight
TurnCanStart_guarded ==
  /\ pc \in {"idle", "done"} /\ turns < MaxTurns
  /\ parked.pc \in {"idle", "done"}

\* process_message may be called whenever its caller is not inside a call
TurnCanStart == pc \in {"idle", "done"} /\ turns < MaxTurns

\* process_message up to the engine call: the CLIENT row is created, the
\* user entry is appended to state.messages
SaveUserMessage ==
  /\ TurnCanStart
  /\ \E user_input \in UserInputs :
       /\ db_messages' = Append(db_messages, Row(state.chat_id, << user_input >>, "CLIENT", "NULL"))
       /\ state' = [state EXCEPT !.messages = Append(@, Msg("user", << user_input >>))]
  /\ user_message' = Len(db_messages) + 1
  /\ turn_start' = [db |-> Len(db_messages), state |-> Len(state.messages),
                    memory |-> Len(memory[state.chat_id].messages)]
  /\ turns' = turns + 1
  /\ pc' = "respond"
  /\ node' = "none"
  /\ response' = NoResponse
  /\ result' = NoResult
  /\ commands' = << >>
  /\ UNCHANGED << parked, parsed, faults, now, chats, transfer_calls, provider_calls, memory, ncalls >>

\* message_service.create raises while the CLIENT row is saved: the call is
\* made before the try block of process_message
SaveUserMessage_Raises ==
  /\ TurnCanStart
  /\ faults < MaxFaults
  /\ faults' = faults + 1
  /\ turn_start' = [db |-> Len(db_messages), state |-> Len(state.messages),
                    memory |-> Len(memory[state.chat_id].messages)]
  /\ turns' = turns + 1
  /\ user_message' = 0
  /\ pc' = "done"
  /\ node' = "none"
  /\ response' = NoResponse
  /\ result' = Propagated("db error")
  /\ commands' = << >>
  /\ UNCHANGED << parked, parsed, now, chats, db_messages, transfer_calls, provider_calls, state,
                  memory, ncalls >>

\* an engine start that files every conversation under one thread id
Respond_Begin_onethread ==
  /\ pc = "respond"
  /\ LET msgs == Append(state.messages, system_message)
     IN  /\ state' = [state EXCEPT !.messages = msgs]
         /\ memory' = [memory EXCEPT ![ChatId].messages = add_messages(@, msgs)]
  /\ pc' = "graph"
  /\ node' = "chatbot"
  /\ UNCHANGED << parked, parsed, faults, now, chats, db_messages, transfer_calls, provider_calls,
                  user_message, response, result, turns, ncalls, commands,
                  turn_start >>

\* the engine starts: the system message is appended to the state of the
\* caller and graph.ainvoke merges the input into the checkpoint of the thread
Respond_Begin ==
  /\ pc = "respond"
  /\ LET msgs == Append(state.messages, system_message)
     IN  /\ state' = [state EXCEPT !.messages = msgs]
         /\ memory' = [memory EXCEPT ![state.chat_id].messages = add_messages(@, msgs)]
  /\ pc' = "graph"
  /\ node' = "chatbot"
  /\ UNCHANGED << parked, parsed, faults, now, chats, db_messages, transfer_calls, provider_calls,
                  user_message, response, result, turns, ncalls, commands,
                  turn_start >>

\* process_message once the awaited engine call is over with outcome r:
\* _process_assistant_response up to its first await, or the except clause
\* (a response that is not a dict makes _parse_response raise AttributeError)
ProcessResponse(r) ==
  /\ response' = r
  /\ IF r.kind = "dict"
     THEN /\ state' = [state EXCEPT !.messages = Append(@, Msg("assistant", parse_content(r)))]
          /\ result' = result
          /\ pc' = "save_bot"
     ELSE /\ state' = state
          /\ result' = OnTurnException(IF r.kind = "raised" THEN r.error
                                       ELSE "'NoneType' object has no attribute 'get'")
          /\ pc' = "done"

\* the graph ended: the engine parses the last message and returns
Respond_Return ==
  /\ Running /\ node = "END"
  /\ ProcessResponse(OnGraphResult(memory[state.chat_id].messages))
  /\ UNCHANGED << parked, parsed, faults, now, chats, db_messages, transfer_calls, provider_calls,
                  memory, node, user_message, turns, ncalls, commands, turn_start >>

\* the graph raised: the engine gives back what its except clause gives
Respond_Failed ==
  /\ Running /\ node = "failed"
  /\ ProcessResponse(OnGraphException("graph error"))
  /\ UNCHANGED << parked, parsed, faults, now, chats, db_messages, transfer_calls, provider_calls,
                  memory, node, user_message, turns, ncalls, commands, turn_start >>

\* a save of the BOT row that leaves its intent out
SaveBotResponse_nointent ==
  /\ pc = "save_bot"
  /\ db_messages' = Append(db_messages,
        Row(state.chat_id, parse_content(response), "BOT", "NULL"))
  /\ pc' = "update_intent"
  /\ UNCHANGED << parked, parsed, faults, now, chats, transfer_calls, provider_calls, state, memory,
                  node, user_message, response, result, turns, ncalls, commands,
                  turn_start >>

\* _save_bot_response
SaveBotResponse ==
  /\ pc = "save_bot"
  /\ db_messages' = Append(db_messages,
        Row(state.chat_id, parse_content(response), "BOT", parse_intent(response)))
  /\ pc' = "update_intent"
  /\ UNCHANGED << parked, parsed, faults, now, chats, transfer_calls, provider_calls, state, memory,
                  node, user_message, response, result, turns, ncalls, commands,
                  turn_start >>

\* message_service.create raises while the BOT row is saved
SaveBotResponse_Raises ==
  /\ pc = "save_bot"
  /\ faults < MaxFaults
  /\ faults' = faults + 1
  /\ result' = OnTurnException("db error")
  /\ pc' = "done"
  /\ UNCHANGED << parked, parsed, now, chats, db_messages, transfer_calls, provider_calls, state,
                  memory, node, user_message, response, turns, ncalls, commands,
                  turn_start >>

\* an update that writes the intent to every CLIENT row of the chat
UpdateUserIntent_all ==
  /\ pc = "update_intent"
  /\ db_messages' = [k \in 1..Len(db_messages) |->
        IF db_messages[k].sender = "CLIENT" /\ db_messages[k].chat_id = state.chat_id
        THEN [db_messages[k] EXCEPT !.intent = parse_intent(response)]
        ELSE db_messages[k]]
  /\ result' = SuccessResult(parse_content(response), parse_intent(response))
  /\ pc' = "done"
  /\ UNCHANGED << parked, parsed, faults, now, chats, transfer_calls, provider_calls, state, memory,
                  node, user_message, response, turns, ncalls, commands, turn_start >>

\* _update_user_intent, then the success result
UpdateUserIntent ==
  /\ pc = "update_intent"
  /\ db_messages' = [db_messages EXCEPT ![user_message].intent = parse_intent(response)]
  /\ result' = SuccessResult(parse_content(response), parse_intent(response))
  /\ pc' = "done"
  /\ UNCHANGED << parked, parsed, faults, now, chats, transfer_calls, provider_calls, state, memory,
                  node, user_message, response, turns, ncalls, commands, turn_start >>

\* a failing update that takes the BOT row of the turn back
UpdateUserIntent_Raises_rollback ==
  /\ pc = "update_intent"
  /\ faults < MaxFaults
  /\ faults' = faults + 1
  /\ db_messages' = SubSeq(db_messages, 1, Len(db_messages) - 1)
  /\ result' = OnTurnException("db error")
  /\ pc' = "done"
  /\ UNCHANGED << parked, parsed, now, chats, transfer_calls, provider_calls, state,
                  memory, node, user_message, response, turns, ncalls, commands,
                  turn_start >>

\* message_service.update raises
UpdateUserIntent_Raises ==
  /\ pc = "update_intent"
  /\ faults < MaxFaults
  /\ faults' = faults + 1
  /\ result' = OnTurnException("db error")
  /\ pc' = "done"
  /\ UNCHANGED << parked, parsed, now, chats, db_messages, transfer_calls, provider_calls, state,
                  memory, node, user_message, response, turns, ncalls, commands,
                  turn_start >>

\* ------------------------------------------------------------------------
\* The whole core: turn processor, engine, graph, tools
\* ------------------------------------------------------------------------
Next ==
  \/ SaveUserMessage
  \/ SaveUserMessage_Raises
  \/ Respond_Begin
  \/ Chatbot_Final
  \/ Chatbot_ListContent
  \/ Chatbot_ToolCalls
  \/ Chatbot_Raises
  \/ Tools
  \/ Graph_Raises
  \/ Respond_Return
  \/ Respond_Failed
  \/ SaveBotResponse
  \/ SaveBotResponse_Raises
  \/ UpdateUserIntent
  \/ UpdateUserIntent_Raises

Spec == Init /\ [][Next]_vars

\* ------------------------------------------------------------------------
\* The engine alone: turns up to the return of run_graph_once_with_interrupt
\* ------------------------------------------------------------------------
NextEngine ==
  \/ SaveUserMessage
  \/ Respond_Begin
  \/ Chatbot_Final
  \/ Chatbot_ListContent
  \/ Chatbot_ToolCalls
  \/ Chatbot_Raises
  \/ Tools
  \/ Graph_Raises
  \/ Respond_Return
  \/ Respond_Failed

\* graph.ainvoke keeps stepping: a node that is due does run
FairSpecEngine ==
  /\ Init /\ [][NextEngine]_vars
  /\ WF_vars(Chatbot_Final \/ Chatbot_ListContent \/ Chatbot_ToolCalls \/ Tools)

\* ------------------------------------------------------------------------
\* The turn processor over a stub engine (the unit tests of ChatProcessor)
\* ------------------------------------------------------------------------
StubValues == {StrVal("Hello!"), StrVal(""), NumVal("7")}

StubIntents ==
  {StrVal("GREETING"), StrVal("greeting"), StrVal("INVALID_INTENT"), NumVal("5")}

\* chat_processor.assistant.get_response_by_thread_id = AsyncMock(return_value=...)
Stub_Returns ==
  /\ pc = "respond"
  /\ \E c \in StubValues, i \in StubIntents : ProcessResponse(DictResponse(c, i))
  /\ UNCHANGED << parked, parsed, faults, now, chats, db_messages, transfer_calls, provider_calls,
                  memory, node, user_message, turns, ncalls, commands, turn_start >>

\* a stub dict without the intent key, or without the content key
Stub_ReturnsPartial ==
  /\ pc = "respond"
  /\ \E k \in {"content", "intent"} :
       ProcessResponse([kind |-> "dict", d |-> [x \in {k} |-> StrVal("Hello!")], error |-> ""])
  /\ UNCHANGED << parked, parsed, faults, now, chats, db_messages, transfer_calls, provider_calls,
                  memory, node, user_message, turns, ncalls, commands, turn_start >>

\* chat_processor.assistant.get_response_by_thread_id = AsyncMock(side_effect=Exception("Test error"))
Stub_Raises ==
  /\ pc = "respond"
  /\ faults < MaxFaults
  /\ faults' = faults + 1
  /\ ProcessResponse(RaisedResponse("Test error"))
  /\ UNCHANGED << parked, parsed, now, chats, db_messages, transfer_calls, provider_calls,
                  memory, node, user_message, turns, ncalls, commands, turn_start >>

NextStub ==
  \/ SaveUserMessage
  \/ SaveUserMessage_Raises
  \/ Stub_Returns
  \/ Stub_ReturnsPartial
  \/ Stub_Raises
  \/ SaveBotResponse
  \/ SaveBotResponse_Raises
  \/ UpdateUserIntent
  \/ UpdateUserIntent_Raises

SpecStub == Init /\ [][NextStub]_vars

\* ------------------------------------------------------------------------
\* Two callers: the event loop runs one call of process_message at a time
\* and changes over at an await
\* ------------------------------------------------------------------------
\* the locals of the running call, as they are kept while it is suspended
Locals(st) ==
  [state |-> st, pc |-> pc, node |-> node, user_message |-> user_message,
   response |-> response, result |-> result, turn_start |-> turn_start]

\* the running call is suspended and the call of the other conversation,
\* which has its own state object, goes on
Switch_Conversation ==
  /\ state' = parked.state
  /\ pc' = parked.pc
  /\ node' = parked.node
  /\ user_message' = parked.user_message
  /\ response' = parked.response
  /\ result' = parked.result
  /\ turn_start' = parked.turn_start
  /\ parked' = Locals(state)
  /\ UNCHANGED << parsed, faults, now, chats, db_messages, transfer_calls, provider_calls,
                  memory, turns, ncalls, commands >>

NextThreads ==
  \/ NextEngine
  \/ Switch_Conversation

SpecThreads == Init /\ [][NextThreads]_vars

\* the running call is suspended and another call of process_message that
\* was given the same state object goes on
Switch_Turn ==
  /\ pc' = parked.pc
  /\ node' = parked.node
  /\ user_message' = parked.user_message
  /\ response' = parked.response
  /\ result' = parked.result
  /\ turn_start' = parked.turn_start
  /\ parked' = Locals(parked.state)
  /\ UNCHANGED << parsed, faults, now, chats, db_messages, transfer_calls, provider_calls,
                  state, memory, turns, ncalls, commands >>

\* two calls of process_message on one conversation, over the stub engine
NextInterleaved ==
  \/ NextStub
  \/ Switch_Turn

SpecInterleaved == Init /\ [][NextInterleaved]_vars

\* ------------------------------------------------------------------------
\* The message route: POST /messages
\* ------------------------------------------------------------------------
\* the intents a posted message may carry (the field is optional)
PostIntents == {"NULL", "GREETING", "OTHER"}

\* create_message: message_service.create saves the row and the route
\* answers 201 with it; the route makes no other call
create_message ==
  /\ Len(db_messages) < MaxPosts
  /\ \E chat_id \in ExistingChats, sender \in {"CLIENT", "BOT"}, intent \in PostIntents,
        content \in UserInputs :
       db_messages' = Append(db_messages, Row(chat_id, << content >>, sender, intent))
  /\ UNCHANGED << parked, parsed, faults, now, chats, transfer_calls, provider_calls, state,
                  memory, pc, node, user_message, response, result, turns, ncalls,
                  commands, turn_start >>

\* create_message when message_service.create raises: the route answers 500
create_message_Raises ==
  /\ Len(db_messages) < MaxPosts
  /\ faults < MaxFaults
  /\ faults' = faults + 1
  /\ UNCHANGED << parked, parsed, now, chats, db_messages, transfer_calls, provider_calls, state,
                  memory, pc, node, user_message, response, result, turns, ncalls,
                  commands, turn_start >>

NextRoutes ==
  \/ create_message
  \/ create_message_Raises

SpecRoutes == Init /\ [][NextRoutes]_vars

\* ------------------------------------------------------------------------
\* The tools invoked one call at a time (the tests of ToolManager)
\* ------------------------------------------------------------------------
\* the tool node runs one tool call and applies its Command
InvokeTool(c, outcome, clock) ==
  /\ ncalls < MaxToolCalls
  /\ ~ReachesProvider(c) => outcome = "ok"
  /\ ~ReadsClock(c) => clock = now
  /\ outcome = "raise" => faults < MaxFaults
  /\ faults' = IF outcome = "raise" THEN faults + 1 ELSE faults
  /\ now' = clock
  /\ ncalls' = ncalls + 1
  /\ \E r \in {tool_node(<< [id |-> ncalls + 1, name |-> c.name, args |-> c.args] >>,
                           << outcome >>, clock,
                [new |-> << >>, fields |-> memory[state.chat_id].fields,
                 chats |-> chats, messages |-> db_messages,
                 transfers |-> << >>, providers |-> << >>, commands |-> << >>])} :
         /\ memory' = [memory EXCEPT ![state.chat_id] =
                         [messages |-> @.messages \o r.new, fields |-> r.fields]]
         /\ chats' = r.chats
         /\ db_messages' = r.messages
         /\ transfer_calls' = transfer_calls \o r.transfers
         /\ provider_calls' = provider_calls \o r.providers
         /\ commands' = r.commands
  /\ UNCHANGED << parked, parsed, state, pc, node, user_message, response, result, turns, turn_start >>

Invoke_human_assistance ==
  \E a \in HumanAssistanceInputs, clock \in now..MaxClock :
    InvokeTool([name |-> "human_assistance", args |-> a], "ok", clock)

Invoke_get_store_data ==
  \E a \in StoreDataInputs, outcome \in {"ok", "raise"} :
    InvokeTool([name |-> "get_store_data", args |-> a], outcome, now)

Invoke_get_products_data ==
  \E a \in ProductsDataInputs, outcome \in {"ok", "raise"} :
    InvokeTool([name |-> "get_products_data", args |-> a], outcome, now)

\* the chats a caller of the chat service may name
ServiceChatIds == {"c1", "c9"}

\* chat_service.transfer_to_operator called with the keywords of its signature
ChatService_transfer_to_operator ==
  /\ ncalls < MaxToolCalls
  /\ ncalls' = ncalls + 1
  /\ \E chat_id \in ServiceChatIds :
       \E r \in {transfer_to_operator(chats, db_messages, TransferToOperatorParams,
                                      chat_id, "op@example.com")} :
         /\ chats' = r.chats
         /\ db_messages' = r.messages
         /\ transfer_calls' = Append(transfer_calls,
               [chat_id |-> chat_id, inquiry_id |-> << >>, raised |-> r.raised])
  /\ UNCHANGED << parked, parsed, now, provider_calls, state, memory, pc, node, user_message, response,
                  result, turns, commands, turn_start, faults >>

\* chat_service.save_client_info_for_transfer called with the keywords of its
\* signature
ChatService_save_client_info_for_transfer ==
  /\ ncalls < MaxToolCalls
  /\ ncalls' = ncalls + 1
  /\ \E chat_id \in ServiceChatIds :
       \E r \in {save_client_info_for_transfer(chats, SaveClientInfoParams, chat_id,
                     "Ann", "ann@example.com", "refund", "INQ-0")} :
         /\ chats' = r.chats
         /\ transfer_calls' = Append(transfer_calls,
               [chat_id |-> chat_id, inquiry_id |-> << "INQ-0" >>, raised |-> r.raised])
  /\ UNCHANGED << parked, parsed, now, db_messages, provider_calls, state, memory, pc, node,
                  user_message, response, result, turns, commands, turn_start, faults >>

NextTools ==
  \/ Invoke_human_assistance
  \/ Invoke_get_store_data
  \/ Invoke_get_products_data
  \/ ChatService_transfer_to_operator
  \/ ChatService_save_client_info_for_transfer

SpecTools == Init /\ [][NextTools]_vars

\* ------------------------------------------------------------------------
\* The response parser applied to a text (the tests of get_json_content)
\* ------------------------------------------------------------------------
\* the pieces the texts are made of
ParserPieces ==
  {" ", "No JSON here", "{", "}", "^^^json", "^^^", "{}",
   "{\"reply\": \"Hello!\", \"intent\": \"GREETING\"}",
   "{\"reply\": \"Bye\", \"intent\": \"greeting\"}",
   "{\"reply\": \"Hello!\"}",
   "{\"reply\": \"Hello!\" \"intent\": \"GREETING\"}",
   "^^^json\n{\"reply\": \"Hello!\", \"intent\": \"GREETING\"}\n^^^",
   "^^^json\n{oops}\n^^^"}

\* the texts: up to MaxPieces pieces in a row
ParserContents == UNION {[1..n -> ParserPieces] : n \in 0..MaxPieces}

InitParser == InitCore /\ parsed \in {Unparsed(c) : c \in ParserContents}

\* get_json_content(content)
Parse ==
  /\ ~parsed.called
  /\ parsed' = [content |-> parsed.content, called |-> TRUE,
                out |-> get_json_content(parsed.content)]
  /\ UNCHANGED << parked, now, chats, db_messages, transfer_calls, provider_calls, state,
                  memory, pc, node, user_message, response, result, turns, ncalls,
                  commands, turn_start, faults >>

NextParser == Parse

SpecParser == InitParser /\ [][NextParser]_vars

\* ------------------------------------------------------------------------
\* Properties
\* ------------------------------------------------------------------------
\* the messages the checkpoint of the thread gained in the current turn
TurnMessages ==
  SubSeq(memory[state.chat_id].messages, turn_start.memory + 1,
         Len(memory[state.chat_id].messages))

\* the ids of the tool calls requested by the assistant outputs of the turn
RequestedIds ==
  UNION {{c.id : c \in Range(m.tool_calls)} : m \in {x \in Range(TurnMessages) : x.role = "assistant"}}

\* the ids the tool messages of the turn answer
AnsweredIds ==
  {m.tool_call_id : m \in {x \in Range(TurnMessages) : x.role = "tool"}}

\* C1: in every turn the first node run is the assistant; after an
\* assistant step the next step is tools exactly when the output carries
\* tool calls, and otherwise the graph ends on that output, which is the
\* final answer; after a tools step the next step is the assistant.
C1_GraphTransitions ==
  [][ /\ (pc = "respond" /\ pc' = "graph") => node' = "chatbot"
      /\ (Running /\ node = "chatbot" /\ memory' # memory) =>
           LET out == Last(memory'[state.chat_id].messages)
           IN  /\ out.role = "assistant"
               /\ out.tool_calls # << >> => node' = "tools"
               /\ out.tool_calls = << >> => node' = "END"
      /\ (Running /\ node = "tools" /\ memory' # memory) => node' = "chatbot"
      /\ node' = "END" =>
           /\ Last(memory'[state.chat_id].messages).role = "assistant"
           /\ Last(memory'[state.chat_id].messages).tool_calls = << >>
    ]_vars

\* a turn that went assistant, tools, assistant and ended
C1_Witness ==
  /\ Running /\ node = "END"
  /\ \E m \in Range(TurnMessages) : m.role = "tool"

\* C2: whenever the assistant is about to run, or the graph has ended,
\* every tool call requested earlier in the turn has a tool message with
\* its id, and no tool message carries an id that was not requested.
C2_ToolCallsAnswered ==
  (Running /\ node \in {"chatbot", "END"}) =>
     /\ RequestedIds \subseteq AnsweredIds
     /\ AnsweredIds \subseteq RequestedIds

\* a turn that ended after two tool calls, one of them rejected by its tool
C2_Witness ==
  /\ Running /\ node = "END"
  /\ Cardinality(RequestedIds) = 2
  /\ \E m \in Range(TurnMessages) :
       m.role = "tool" /\ m.content = << "Intent '", "not_a_real_intent", "' is not supported." >>

\* C4: whatever the model call, the graph run or the response parser
\* raises, the engine call is over without an exception reaching its caller.
C4_EngineNeverRaises ==
  /\ response.kind # "raised"
  /\ (node \in {"END", "failed"} /\ pc # "graph") => response.kind \in {"dict", "None"}

\* the engine call is over in a turn whose model call or graph run raised
C4_Witness ==
  /\ pc = "done" /\ node = "failed"
  /\ result.kind = "returned"

\* C5: when the model call or the graph run raises, the engine returns the
\* content "No reply provided." with the intent OTHER.
C5_FailureGivesDefault ==
  (node = "failed" /\ pc = "done") =>
     /\ response.kind = "dict"
     /\ response.d["content"] = StrVal("No reply provided.")
     /\ Upper(response.d["intent"].s) = "OTHER"

\* the assistant outputs of the current turn that carry tool calls
ToolRounds ==
  {i \in 1..Len(TurnMessages) :
     TurnMessages[i].role = "assistant" /\ TurnMessages[i].tool_calls # << >>}

TurnRows == SubSeq(db_messages, turn_start.db + 1, Len(db_messages))

\* the entries state.messages gained in the current turn
TurnEntries == SubSeq(state.messages, turn_start.state + 1, Len(state.messages))

\* the engine returned a non-empty content and a recognised intent
RecognisedResponse ==
  /\ response.kind = "dict"
  /\ DOMAIN response.d = {"content", "intent"}
  /\ response.d["content"].ty = "str" /\ Truthy(response.d["content"].s)
  /\ response.d["intent"].ty = "str" /\ Upper(response.d["intent"].s) \in IntentEnum

C6_NeverPropagates ==
  pc = "done" =>
     /\ result.kind = "returned"
     /\ ~result.success => result.error # ""

\* C7: when the engine call raises, the turn returns success false with
\* the message of the exception as error, and has added no BOT row.
C7_EngineFailure ==
  (pc = "done" /\ response.kind = "raised") =>
     /\ result.kind = "returned"
     /\ ~result.success
     /\ result.error = response.error
     /\ \A k \in 1..Len(TurnRows) : TurnRows[k].sender # "BOT"

\* a turn is over whose engine call raised
C7_Witness ==
  /\ pc = "done" /\ response = RaisedResponse("Test error")
  /\ Len(TurnRows) = 1

\* the call gives a name, an email, a query and a chat id
FullyPopulated(call) ==
  /\ call.name = "human_assistance"
  /\ Truthy(call.args.chat_id) /\ Truthy(call.args.name)
  /\ Truthy(call.args.email) /\ Truthy(call.args.query)

\* C9: human_assistance with name, email, query and the id of an existing
\* chat calls the chat service once, passes it the inquiry id it returns as
\* last_inquiry_id, and leaves the chat transferred to an operator.
C9_EscalationPersisted ==
  \A k \in 1..Len(commands) :
    (FullyPopulated(commands[k].call) /\ commands[k].call.args.chat_id \in ExistingChats) =>
       /\ Len(commands[k].transfers) = 1
       /\ "last_inquiry_id" \in DOMAIN commands[k].update.fields
       /\ commands[k].transfers[1].inquiry_id = commands[k].update.fields["last_inquiry_id"]
       /\ chats[commands[k].call.args.chat_id].transferred_to_operator

\* C10: human_assistance without a chat id, or without a name, an email or
\* a query, does not call the chat service; it returns one tool message,
\* the apology when the chat id is missing and the request for name, email
\* and query otherwise, and its Command carries no field for the state.
C10_PreconditionGating ==
  \A k \in 1..Len(commands) :
    (commands[k].call.name = "human_assistance" /\ ~FullyPopulated(commands[k].call)) =>
       /\ commands[k].transfers = << >>
       /\ commands[k].update.fields = NoFields
       /\ commands[k].update.messages =
            << ToolMessage(
                 IF ~Truthy(commands[k].call.args.chat_id)
                 THEN << "Sorry, now we can't register your inquiry. Please try again later." >>
                 ELSE << "Please provide a name, email, and query." >>,
                 commands[k].call.id) >>

\* human_assistance has run with a chat id and a name but without an email
C10_Witness ==
  \E k \in 1..Len(commands) :
    /\ commands[k].call.name = "human_assistance"
    /\ Truthy(commands[k].call.args.chat_id) /\ Truthy(commands[k].call.args.name)
    /\ ~Truthy(commands[k].call.args.email)
    /\ transfer_calls = << >>

\* C11: no step sets transferred_to_operator of a chat back to false.
C11_TransferMonotonic ==
  [][ \A c \in DOMAIN chats :
        chats[c].transferred_to_operator => chats'[c].transferred_to_operator ]_vars

\* the chat was transferred and a later human_assistance call on it failed
C11_Witness ==
  /\ chats["c1"].transferred_to_operator
  /\ \E i, j \in 1..Len(transfer_calls) :
       /\ i < j
       /\ transfer_calls[i].chat_id = "c1" /\ ~transfer_calls[i].raised
       /\ transfer_calls[j].chat_id = "c1" /\ transfer_calls[j].raised

\* C12: when the chat service raises during human_assistance, the tool
\* returns one tool message for the call id with the retry-later text, and
\* its Command carries neither name nor email nor last_inquiry_id.
C12_PersistenceFailure ==
  \A k \in 1..Len(commands) :
    (commands[k].transfers # << >> /\ commands[k].transfers[1].raised) =>
       /\ commands[k].update.messages =
            << ToolMessage(<< "An error occurred while registering your inquiry, please try again later." >>,
                           commands[k].call.id) >>
       /\ commands[k].update.fields = NoFields

\* human_assistance has run and its call of the chat service raised
C12_Witness ==
  \E k \in 1..Len(commands) :
    /\ FullyPopulated(commands[k].call)
    /\ commands[k].transfers # << >> /\ commands[k].transfers[1].raised
    /\ Len(commands[k].update.messages) = 1

\* C13: a CLIENT row is created with a null intent before the engine is
\* called; the only step that writes the intent of a CLIENT row is the intent
\* update of the turn the row belongs to, taken once the engine has answered
\* and the BOT row of the turn is saved, and it writes a null intent once; a
\* turn that returns success has written it.
C13_IntentWrittenOnce ==
  [][ /\ \A k \in 1..Len(db_messages) :
           (db_messages[k].sender = "CLIENT" /\ db_messages'[k] # db_messages[k]) =>
              /\ pc = "update_intent" /\ response.kind = "dict"
              /\ k = user_message
              /\ db_messages[k].intent = "NULL" /\ db_messages'[k].intent # "NULL"
              /\ Len(db_messages) > k /\ Last(db_messages).sender = "BOT"
      /\ \A k \in (Len(db_messages) + 1)..Len(db_messages') :
           db_messages'[k].sender = "CLIENT" =>
              /\ db_messages'[k].intent = "NULL"
              /\ pc' = "respond" /\ response' = NoResponse
      /\ (pc' = "done" /\ result'.success) => db_messages'[user_message'].intent # "NULL"
    ]_vars

\* the second turn has written the intent of its CLIENT row
C13_Witness ==
  /\ pc = "done" /\ result.success /\ turns = 2
  /\ user_message > 2
  /\ db_messages[user_message].intent # db_messages[1].intent

\* C14: every BOT row carries an intent of the enumeration; the row saved
\* for an engine response carries the member the intent of the response
\* matches once in upper case, and OTHER when the intent is absent, is not a
\* str or matches no member.
C14_BotIntentClosed ==
  /\ \A k \in 1..Len(db_messages) :
       db_messages[k].sender = "BOT" => db_messages[k].intent \in IntentEnum
  /\ pc = "update_intent" =>
       /\ Last(db_messages).sender = "BOT"
       /\ ( \/ "intent" \notin DOMAIN response.d
            \/ response.d["intent"].ty # "str"
            \/ Upper(response.d["intent"].s) \notin IntentEnum )
          => Last(db_messages).intent = "OTHER"
       /\ \A e \in IntentEnum :
            ( /\ "intent" \in DOMAIN response.d
              /\ response.d["intent"].ty = "str"
              /\ Upper(response.d["intent"].s) = e )
            => Last(db_messages).intent = e

\* the BOT row was saved for a response whose intent is not a str
C14_Witness ==
  /\ pc = "update_intent"
  /\ "intent" \in DOMAIN response.d /\ response.d["intent"].ty = "num"
  /\ Last(db_messages).intent = "OTHER"

\* C15: for a response whose content is empty or not a str, the BOT row
\* carries the fallback text and the intent OTHER.
C15_FallbackIntentOther ==
  ( /\ pc = "update_intent"
    /\ \/ "content" \notin DOMAIN response.d
       \/ response.d["content"].ty # "str"
       \/ response.d["content"].s = "" )
  => /\ Last(db_messages).content = FallbackContent
     /\ Last(db_messages).intent = "OTHER"

\* C16: once the engine has been called on the state, state.messages holds
\* exactly one system message, as its first element.
C16_OneSystemMessageFirst ==
  (pc \in {"graph", "save_bot", "update_intent", "done"} /\ node # "none") =>
     {k \in 1..Len(state.messages) : state.messages[k].role = "system"} = {1}

\* C17: whatever the text, the parser returns an object with a reply key
\* and an intent key.
C17_ParserWellFormed ==
  parsed.called => {"reply", "intent"} \subseteq DOMAIN parsed.out

\* the fenced blocks and the brace-delimited substrings of the parsed text
ParsedFenced == FindFenced(LexAll(parsed.content), 1)

ParsedBraces == FindBraces(LexAll(parsed.content), 1)

\* C18: the parser returns the content of the last candidate, in text
\* order, that decodes as JSON; the candidates are the fenced blocks when
\* there is one, and the brace-delimited substrings only when there is none.
C18_LastCandidate ==
  parsed.called =>
     LET cands == IF ParsedFenced # << >> THEN ParsedFenced ELSE ParsedBraces
     IN  /\ \A i \in 1..Len(cands) :
              ( /\ JsonValid(cands[i])
                /\ \A j \in (i + 1)..Len(cands) : ~JsonValid(cands[j]) )
              => parsed.out = JsonLoads(cands[i])
         /\ ( /\ ParsedFenced # << >>
              /\ \A i \in 1..Len(ParsedFenced) : ~JsonValid(ParsedFenced[i]) )
            => parsed.out["reply"] = StrVal("Invalid or missing JSON")

\* a malformed fenced block, then a valid fenced block, then a valid
\* brace-delimited block that is no candidate
C18_Witness ==
  /\ parsed.called
  /\ parsed.content =
       << "^^^json\n{oops}\n^^^",
          "^^^json\n{\"reply\": \"Hello!\", \"intent\": \"GREETING\"}\n^^^",
          "{\"reply\": \"Bye\", \"intent\": \"greeting\"}" >>
  /\ parsed.out["reply"] = StrVal("Hello!")

\* C19: for an empty or whitespace-only text the parser returns the reply
\* "Empty response" with the intent "OTHER"; when no candidate decodes it
\* returns the reply "Invalid or missing JSON" with the intent "OTHER".
C19_ParserDefaults ==
  parsed.called =>
     LET toks == LexAll(parsed.content)
         cands == IF ParsedFenced # << >> THEN ParsedFenced ELSE ParsedBraces
     IN  /\ IsBlank(toks) =>
              parsed.out = [reply |-> StrVal("Empty response"), intent |-> StrVal("OTHER")]
         /\ (~IsBlank(toks) /\ \A i \in 1..Len(cands) : ~JsonValid(cands[i])) =>
              parsed.out = [reply |-> StrVal("Invalid or missing JSON"),
                            intent |-> StrVal("OTHER")]

\* the tool call of a command was answered by exactly this tool message and
\* reached no store-info or catalog function
ShortCircuits(cmd, content) ==
  /\ cmd.providers = << >>
  /\ cmd.transfers = << >>
  /\ Len(cmd.update.messages) = 1
  /\ cmd.update.messages[1].role = "tool"
  /\ cmd.update.messages[1].tool_call_id = cmd.call.id
  /\ cmd.update.messages[1].content = content

\* C20: get_store_data with an intent outside its seven supported intents,
\* and get_products_data with an intent outside its four supported intents,
\* with product_list_by_category and no category, or with product_details
\* and no product id, answer with a tool message ("not supported", or a
\* request for the missing parameter) and call no store-info or catalog
\* function.
C20_UnsupportedShortCircuits ==
  \A k \in 1..Len(commands) :
    LET cmd == commands[k]
        a == cmd.call.args
        unsupported == << "Intent '", a.intent, "' is not supported." >>
    IN  /\ ( /\ cmd.call.name = "get_store_data"
             /\ a.intent \notin {"store_info", "store_hours", "store_contact",
                                 "store_promotions", "store_payment_methods",
                                 "store_social_media", "store_location"} )
           => ShortCircuits(cmd, unsupported)
        /\ cmd.call.name = "get_products_data" =>
             /\ a.intent \notin {"product_list", "product_categories", "product_details",
                                 "product_list_by_category"}
                => ShortCircuits(cmd, unsupported)
             /\ (a.intent = "product_list_by_category" /\ a.category = "")
                => ShortCircuits(cmd, << "Please provide a category." >>)
             /\ (a.intent = "product_details" /\ a.product_id = 0)
                => ShortCircuits(cmd, << "Please provide a product ID." >>)

\* product_list_by_category was invoked without a category after a call
\* that did reach a catalog or store-info function
C20_Witness ==
  /\ provider_calls # << >>
  /\ \E k \in 1..Len(commands) :
       /\ commands[k].call.name = "get_products_data"
       /\ commands[k].call.args.intent = "product_list_by_category"
       /\ commands[k].call.args.category = ""
       /\ commands[k].update.messages[1].content = << "Please provide a category." >>

\* the last n entries of a sequence
Suffix(seq, n) == SubSeq(seq, Len(seq) - n + 1, Len(seq))

\* C21: when the store-info or catalog function raises inside
\* get_store_data or get_products_data, the tools step still ends at the
\* assistant node with the turn running, the call is answered by a tool
\* message with its id that starts with "Error fetching store data: " or
\* "Error fetching product data: ", and every sibling call of the step has
\* its own tool message in the checkpoint, in call order.
C21_ProviderFailureCaught ==
  [][ (Running /\ node = "tools" /\ commands' # commands
       /\ \E k \in 1..Len(commands') : commands'[k].outcome = "raise")
      => /\ node' = "chatbot" /\ pc' = pc
         /\ Len(commands') = Len(Last(memory[state.chat_id].messages).tool_calls)
         /\ Suffix(memory'[state.chat_id].messages, Len(commands'))
              = [k \in 1..Len(commands') |-> commands'[k].update.messages[1]]
         /\ \A k \in 1..Len(commands') :
              /\ Len(commands'[k].update.messages) = 1
              /\ commands'[k].update.messages[1].role = "tool"
              /\ commands'[k].update.messages[1].tool_call_id = commands'[k].call.id
              /\ commands'[k].outcome = "raise" =>
                   /\ commands'[k].providers # << >>
                   /\ Head(commands'[k].update.messages[1].content) =
                        (IF commands'[k].call.name = "get_store_data"
                         THEN "Error fetching store data: "
                         ELSE "Error fetching product data: ")
              /\ commands'[k].outcome = "ok" =>
                   Head(commands'[k].update.messages[1].content)
                      \notin {"Error fetching store data: ", "Error fetching product data: "}
    ]_vars

\* a tools step of two calls in which the catalog function raised and the
\* sibling store call was answered with its data
C21_Witness ==
  /\ Running /\ node = "chatbot"
  /\ Len(commands) = 2
  /\ commands[1].call.name = "get_products_data" /\ commands[1].outcome = "raise"
  /\ commands[2].call.name = "get_store_data" /\ commands[2].outcome = "ok"
  /\ commands[2].providers # << >>
  /\ Last(memory[state.chat_id].messages).tool_call_id = commands[2].call.id

\* C22: a step of a turn changes the checkpoint of no thread id other than
\* the one of the conversation the turn runs for, also while the turn of
\* another conversation is in flight.
C22_ThreadIsolation ==
  [][\A t \in DOMAIN memory : memory'[t] # memory[t] => t = state.chat_id /\ state'.chat_id = t]_vars

\* the turns of two conversations are in flight at once, each with its own
\* checkpoint
C22_Witness ==
  /\ Running /\ parked.pc = "graph"
  /\ state.chat_id # parked.state.chat_id
  /\ Len(memory[state.chat_id].messages) > 2
  /\ Len(memory[parked.state.chat_id].messages) > 2

\* a content with some text in it
NonEmptyContent(content) == \E k \in 1..Len(content) : content[k] # ""

C26_IndependentWrites ==
  [][ (pc = "update_intent" /\ pc' = "done" /\ ~result'.success) =>
        /\ db_messages' = db_messages
        /\ Len(db_messages') = turn_start.db + 2
        /\ Last(db_messages').sender = "BOT"
        /\ db_messages'[user_message].sender = "CLIENT"
        /\ db_messages'[user_message].intent = "NULL"
        /\ result'.kind = "returned" /\ result'.error # ""
    ]_vars

\* a turn is over whose intent update failed
C26_Witness ==
  /\ pc = "done" /\ ~result.success /\ result.kind = "returned"
  /\ response.kind = "dict"
  /\ Len(db_messages) = turn_start.db + 2
  /\ Last(db_messages).sender = "BOT"
  /\ db_messages[user_message].intent = "NULL"

\* C24: once the route has answered a post, process_message has been called
\* exactly once for it when the sender is CLIENT and not at all when the
\* sender is BOT.
C24_TurnPerClientPost ==
  [][ Len(db_messages') = Len(db_messages) + 1 =>
        /\ Last(db_messages').sender = "CLIENT" => turns' = turns + 1
        /\ Last(db_messages').sender = "BOT" => turns' = turns
    ]_vars

\* a call of process_message is between its first and its last statement
InFlight(p) == p \notin {"idle", "done"}

\* C25: nothing keeps a second turn of a conversation from starting while a
\* first one is in flight: a caller that is not inside a call can have its
\* message saved whatever the position of the other call.
C25_NoTurnGuard ==
  (pc \in {"idle", "done"} /\ turns < MaxTurns /\ InFlight(parked.pc))
     => ENABLED SaveUserMessage

\* two turns of one conversation interleaved: the persisted history is two
\* CLIENT rows followed by two BOT rows, and the replies are persisted in
\* another order than they stand in state.messages
C25_Witness ==
  /\ pc = "done" /\ parked.pc = "done"
  /\ result.success /\ parked.result.success
  /\ Len(db_messages) = 4 /\ Len(state.messages) = 4
  /\ [k \in 1..4 |-> db_messages[k].sender] = << "CLIENT", "CLIENT", "BOT", "BOT" >>
  /\ [k \in 1..4 |-> state.messages[k].role] = << "user", "user", "assistant", "assistant" >>
  /\ db_messages[3].content = state.messages[4].content
  /\ db_messages[4].content = state.messages[3].content
  /\ db_messages[3].content # db_messages[4].content

\* the messages of a role in a list of messages
OfRole(messages, role) == {k \in 1..Len(messages) : messages[k].role = role}

\* the rows a sender has in the conversation of the running call
RowsOf(sender) ==
  {k \in 1..Len(db_messages) :
     db_messages[k].sender = sender /\ db_messages[k].chat_id = state.chat_id}

\* C27: on every assistant step the message list handed to the model, the
\* checkpoint of the thread, holds each user utterance of the conversation
\* once and each reply given so far once: the history the caller sends again
\* in state.messages is not added to the history the checkpoint holds.
C27_HistoryOnce ==
  (Running /\ node = "chatbot") =>
     /\ Cardinality(OfRole(memory[state.chat_id].messages, "user"))
          = Cardinality(RowsOf("CLIENT"))
     /\ Cardinality(OfRole(memory[state.chat_id].messages, "user"))
          = Cardinality(OfRole(state.messages, "user"))

\* the Command of a tool call confirms the registration of an inquiry
Confirms(cmd) ==
  \/ cmd.update.fields # NoFields
  \/ \E k \in 1..Len(cmd.update.messages) :
       Head(cmd.update.messages[k].content) = "Thank you, "

C29_InquiryIdsUnique ==
  \A i, j \in 1..Len(transfer_calls) :
    i # j => transfer_calls[i].inquiry_id # transfer_calls[j].inquiry_id

\* C30: a turn that fails leaves state.messages as it was before the turn.
C30_FailedTurnLeavesState ==
  (pc = "done" /\ ~result.success) => Len(state.messages) = turn_start.state

====
